---- MODULE Spec2Model ----
(***************************************************************************)
(* Model of torch/_dynamo/polyfills/pytree.py: the iterative tree walker   *)
(* (tree_iter / tree_leaves), the structure descriptor PyTreeSpec, and the *)
(* recursive tree_flatten / tree_unflatten.                                *)
(*                                                                         *)
(* A Python value is a record [type, val, items]:                          *)
(*   None          [type |-> "NoneType", val |-> "None", items |-> <<>>]   *)
(*   a string      [type |-> "str",  val |-> "a", items |-> <<>>]          *)
(*   a list        [type |-> "list", val |-> "",  items |-> <<t1, ...>>]   *)
(*   a dict        [type |-> "dict", val |-> "",                           *)
(*                  items |-> <<[k |-> key, v |-> t1], ...>>]              *)
(* An optional value (X | None) is a sequence of length at most one.       *)
(***************************************************************************)
EXTENDS Integers, Sequences, FiniteSets, TLC

(* ---------------------------- bounds ----------------------------------- *)

\* Largest number of nodes (containers and leaves) of an input tree.
MaxNodes == 4

(* ------------------------- the input universe -------------------------- *)

NoneValue == [type |-> "NoneType", val |-> "None", items |-> <<>>]

StrValue(s) == [type |-> "str", val |-> s, items |-> <<>>]

ListValue(ts) == [type |-> "list", val |-> "", items |-> ts]

DictValue(ks, ts) ==
    [type |-> "dict", val |-> "",
     items |-> [i \in 1..Len(ts) |-> [k |-> ks[i], v |-> ts[i]]]]

\* The leaf values of the input trees.
LeafValues == {NoneValue, StrValue("a"), StrValue("b")}

\* The insertion orders of the keys of a dict with n items.
KeyOrders(n) ==
    LET ks == <<"p", "q", "r", "s", "t", "u">>
    IN  {[i \in 1..n |-> ks[i]], [i \in 1..n |-> ks[n + 1 - i]]}

RECURSIVE TreesOfSize(_), ForestsOfSize(_)
\* Every tree with exactly n nodes.
TreesOfSize(n) ==
    IF n = 1
    THEN LeafValues \cup {ListValue(<<>>), DictValue(<<>>, <<>>)}
    ELSE LET fs == ForestsOfSize(n - 1)
         IN  {ListValue(f) : f \in fs}
             \cup UNION {{DictValue(ks, f) : ks \in KeyOrders(Len(f))} : f \in fs}

\* Every non-empty sequence of trees with m nodes in total.
ForestsOfSize(m) ==
    UNION {{<<t>> \o f : t \in TreesOfSize(k),
                         f \in (IF k = m THEN {<<>>} ELSE ForestsOfSize(m - k))}
           : k \in 1..m}

Trees == UNION {TreesOfSize(n) : n \in 1..MaxNodes}

\* The is_leaf arguments: absent, or one of two predicates on a node.
Predicates == {"NoPredicate", "IsList", "IsNonEmptyDict"}

(* ----------------------- external collaborators ------------------------ *)

\* is_leaf is not None
HasPredicate(p) == p # "NoPredicate"

\* is_leaf(node), for a supplied predicate
CallPredicate(p, node) ==
    CASE p = "IsList" -> node.type = "list"
      [] p = "IsNonEmptyDict" -> node.type = "dict" /\ Len(node.items) > 0
      [] OTHER -> FALSE

\* The types optree knows in namespace "torch".  None is a node type of
\* optree too (one without children); only none_is_leaf and the explicit
\* test of the callers make it a leaf.
RegisteredTypes == {"list", "dict", "NoneType"}

\* optree.register_pytree_node.get(type, namespace="torch"): an option.
RegistryGet(type) == IF type \in RegisteredTypes THEN <<type>> ELSE <<>>

\* optree.tree_flatten_one_level(node, ...) of a registered container.  Both
\* callers test the node first, so only lists and dicts get here; the last
\* branch is the decomposition of a node without children.
tree_flatten_one_level(node) ==
    CASE node.type = "list" ->
           [children |-> node.items,
            metadata |-> <<>>,
            entries |-> <<[i \in 1..Len(node.items) |-> i - 1]>>,
            unflatten_func |-> <<"list">>]
      [] node.type = "dict" ->
           [children |-> [i \in 1..Len(node.items) |-> node.items[i].v],
            metadata |-> <<[i \in 1..Len(node.items) |-> node.items[i].k]>>,
            entries |-> <<[i \in 1..Len(node.items) |-> node.items[i].k]>>,
            unflatten_func |-> <<"dict">>]
      [] OTHER ->
           [children |-> <<>>, metadata |-> <<>>, entries |-> <<<<>>>>,
            unflatten_func |-> <<node.type>>]

\* The reconstruct function a decomposer returned, applied.
CallUnflattenFunc(func, metadata, subtrees) ==
    CASE func = "list" -> ListValue(subtrees)
      [] func = "dict" -> DictValue(metadata[1], subtrees)
      [] OTHER -> NoneValue

(* ------------------------------ helpers -------------------------------- *)

\* reversed(s)
Reversed(s) == [i \in 1..Len(s) |-> s[Len(s) + 1 - i]]

RECURSIVE SumSeq(_)
\* sum(s)
SumSeq(s) == IF s = <<>> THEN 0 ELSE s[1] + SumSeq(Tail(s))

\* PySlice with the slice taken from the front of the list: s[:end]
PySlice_from_front(s, start, end) ==
    IF end > Len(s) THEN s ELSE SubSeq(s, 1, end)

\* s[start:end] of Python, 0 <= start, 0 <= end
PySlice(s, start, end) ==
    LET lo == IF start > Len(s) THEN Len(s) ELSE start
        hi == IF end > Len(s) THEN Len(s) ELSE end
    IN  IF hi <= lo THEN <<>> ELSE SubSeq(s, lo + 1, hi)

(* ----------------------------- PyTreeSpec ------------------------------ *)

\* The assertions of PyTreeSpec.__post_init__.
post_init_asserts(children, type, metadata, entries, unflatten_func) ==
    IF type = <<>>
    THEN /\ Len(children) = 0
         /\ metadata = <<>>
         /\ entries = <<>>
         /\ unflatten_func = <<>>
    ELSE unflatten_func # <<>>

\* PyTreeSpec with num_leaves counting the children, not their leaves
PyTreeSpec_count_children(children, type, metadata, entries, unflatten_func) ==
    [_children |-> children,
     _type |-> type,
     _metadata |-> metadata,
     _entries |-> entries,
     _unflatten_func |-> unflatten_func,
     num_nodes |-> IF type = <<>>
                   THEN 1
                   ELSE 1 + SumSeq([i \in 1..Len(children) |-> children[i].num_nodes]),
     num_leaves |-> IF type = <<>> THEN 1 ELSE Len(children),
     num_children |-> IF type = <<>> THEN 0 ELSE Len(children),
     none_is_leaf |-> TRUE,
     namespace |-> "torch"]

\* PyTreeSpec(children, type, metadata, entries, unflatten_func): the frozen
\* dataclass with the fields __post_init__ derives.
PyTreeSpec(children, type, metadata, entries, unflatten_func) ==
    [_children |-> children,
     _type |-> type,
     _metadata |-> metadata,
     _entries |-> entries,
     _unflatten_func |-> unflatten_func,
     num_nodes |-> IF type = <<>>
                   THEN 1
                   ELSE 1 + SumSeq([i \in 1..Len(children) |-> children[i].num_nodes]),
     num_leaves |-> IF type = <<>>
                    THEN 1
                    ELSE SumSeq([i \in 1..Len(children) |-> children[i].num_leaves]),
     num_children |-> IF type = <<>> THEN 0 ELSE Len(children),
     none_is_leaf |-> TRUE,
     namespace |-> "torch"]

\* is_leaf that looks at num_leaves alone
is_leaf_by_num_leaves(self) == self.num_leaves = 1

\* PyTreeSpec.is_leaf
is_leaf(self) == self.num_nodes = 1 /\ self.num_leaves = 1

\* leafspec = PyTreeSpec([], None, None, None, None)
leafspec == PyTreeSpec(<<>>, <<>>, <<>>, <<>>, <<>>)

\* isinstance(x, PyTreeSpec)
IsPyTreeSpec(x) == "num_nodes" \in DOMAIN x

(* ----------------------------- tree_flatten ---------------------------- *)

\* helper's first test without the predicate
helper_none_only(p, node) == node.type = "NoneType"

\* helper: node is None or (is_leaf is not None and is_leaf(node))
helper_none_or_flagged(p, node) ==
    node.type = "NoneType" \/ (HasPredicate(p) /\ CallPredicate(p, node))

\* helper: optree.register_pytree_node.get(node_type, ...) is None
helper_unregistered(node) == RegistryGet(node.type) = <<>>

RECURSIVE helper(_, _, _), helper_children(_, _, _)
\* tree_flatten.helper(node, leaves) under the is_leaf argument p.  Returns
\* the list `leaves` as the call left it and the spec the call returned;
\* `calls` records, for this call and every nested one, the node, the length
\* of `leaves` on entry and on return, and the returned spec.
helper(p, node, leaves) ==
    IF helper_none_or_flagged(p, node) \/ helper_unregistered(node)
    THEN [leaves |-> Append(leaves, node),
          spec |-> leafspec,
          calls |-> <<[node |-> node, before |-> Len(leaves),
                       after |-> Len(Append(leaves, node)),
                       spec |-> leafspec]>>]
    ELSE LET one == tree_flatten_one_level(node)
             sub == helper_children(p, one.children, leaves)
             treespec == PyTreeSpec(sub.subspecs, <<node.type>>, one.metadata,
                                    one.entries, one.unflatten_func)
         IN  [leaves |-> sub.leaves,
              spec |-> treespec,
              calls |-> Append(sub.calls,
                               [node |-> node, before |-> Len(leaves),
                                after |-> Len(sub.leaves), spec |-> treespec])]

\* tuple(helper(child, leaves) for child in children)
helper_children(p, children, leaves) ==
    IF children = <<>>
    THEN [leaves |-> leaves, subspecs |-> <<>>, calls |-> <<>>]
    ELSE LET first == helper(p, Head(children), leaves)
             rest == helper_children(p, Tail(children), first.leaves)
         IN  [leaves |-> rest.leaves,
              subspecs |-> <<first.spec>> \o rest.subspecs,
              calls |-> first.calls \o rest.calls]

\* tree_flatten(tree, is_leaf)
tree_flatten(tree, p) == helper(p, tree, <<>>)

\* tree_structure(tree, is_leaf)
tree_structure(tree, p) == tree_flatten(tree, p).spec

(* ---------------------------- tree_unflatten --------------------------- *)

\* An Iterable argument: a list, or an iterator that has to be consumed.
ListArg(items) == [kind |-> "list", items |-> items]

IterArg(items) == [kind |-> "iterator", items |-> items]

\* the length check that only catches too few leaves
length_mismatch_too_few(self, items) == Len(items) < self.num_leaves

\* unflatten: len(leaves) != self.num_leaves
length_mismatch(self, items) == Len(items) # self.num_leaves

\* end = subspec.num_leaves, in place of +=
next_end_assigned(end, subspec) == subspec.num_leaves

\* unflatten: end += subspec.num_leaves
next_end(end, subspec) == end + subspec.num_leaves

\* The record of one call of unflatten: its spec, the materialized leaves,
\* whether the length check raised, and the slices handed to the children.
UnflattenCall(self, items, raised, runs) ==
    [spec |-> self, items |-> items, raised |-> raised, runs |-> runs]

RECURSIVE unflatten(_, _), unflatten_children(_, _, _, _, _)
\* PyTreeSpec.unflatten(self, leaves).  status is "ok" or the exception
\* raised; `calls` records this call and every nested one;
\* `reconstructed` the reconstruct functions called.
unflatten(self, leaves) ==
    LET items == leaves.items
        materialized == leaves.kind # "list"
    IN  IF length_mismatch(self, items)
        THEN [status |-> "ValueError", value |-> NoneValue,
              materialized |-> materialized,
              calls |-> <<UnflattenCall(self, items, TRUE, <<>>)>>,
              reconstructed |-> <<>>]
        ELSE IF is_leaf(self)
        THEN [status |-> "ok", value |-> items[1],
              materialized |-> materialized,
              calls |-> <<UnflattenCall(self, items, FALSE, <<>>)>>,
              reconstructed |-> <<>>]
        ELSE LET sub == unflatten_children(self._children, items, 0, 0, <<>>)
                 call == UnflattenCall(self, items, FALSE, sub.runs)
             IN  IF sub.status # "ok"
                 THEN [status |-> sub.status, value |-> NoneValue,
                       materialized |-> materialized,
                       calls |-> <<call>> \o sub.calls,
                       reconstructed |-> sub.reconstructed]
                 ELSE [status |-> "ok",
                       value |-> CallUnflattenFunc(self._unflatten_func[1],
                                                   self._metadata, sub.subtrees),
                       materialized |-> materialized,
                       calls |-> <<call>> \o sub.calls,
                       reconstructed |-> Append(sub.reconstructed,
                                                self._unflatten_func[1])]

\* The loop `for subspec in self._children` from the given subspecs on, with
\* the values of start, end and subtrees at that point.
unflatten_children(subspecs, items, start, end, subtrees) ==
    IF subspecs = <<>>
    THEN [status |-> "ok", subtrees |-> subtrees, runs |-> <<>>,
          calls |-> <<>>, reconstructed |-> <<>>]
    ELSE LET subspec == Head(subspecs)
             end1 == next_end(end, subspec)
             slice == PySlice(items, start, end1)
             run == [start |-> start, end |-> end1, slice |-> slice]
             r == unflatten(subspec, ListArg(slice))
         IN  IF r.status # "ok"
             THEN [status |-> r.status, subtrees |-> subtrees, runs |-> <<run>>,
                   calls |-> r.calls, reconstructed |-> r.reconstructed]
             ELSE LET rest == unflatten_children(Tail(subspecs), items, end1, end1,
                                                 Append(subtrees, r.value))
                  IN  [status |-> rest.status, subtrees |-> rest.subtrees,
                       runs |-> <<run>> \o rest.runs,
                       calls |-> r.calls \o rest.calls,
                       reconstructed |-> r.reconstructed \o rest.reconstructed]

\* tree_unflatten that materializes the leaves before it tests the spec
tree_unflatten_materialize_first(leaves, treespec) ==
    IF ~IsPyTreeSpec(treespec)
    THEN [status |-> "TypeError", value |-> NoneValue,
          materialized |-> leaves.kind # "list",
          calls |-> <<>>, reconstructed |-> <<>>]
    ELSE unflatten(treespec, leaves)

\* tree_unflatten(leaves, treespec)
tree_unflatten(leaves, treespec) ==
    IF ~IsPyTreeSpec(treespec)
    THEN [status |-> "TypeError", value |-> NoneValue, materialized |-> FALSE,
          calls |-> <<>>, reconstructed |-> <<>>]
    ELSE unflatten(treespec, leaves)

(* --------------------------- the state machine ------------------------- *)

VARIABLES
    tree,       \* the tree argument
    pred,       \* the is_leaf argument
    pc,         \* "idle", then the position of the call that was made
    stack,      \* tree_iter: the list `stack`, its top at the end
    spath,      \* for each element of stack, its path from the root
    out,        \* tree_iter: the values yielded so far
    outpath,    \* the paths of the values yielded so far
    visited,    \* tree_iter: one record per pop, in order
    flat,       \* the result of tree_flatten, as an option
    args,       \* the arguments of tree_unflatten, as an option
    unf         \* the result of tree_unflatten, as an option

vars == <<tree, pred, pc, stack, spath, out, outpath, visited, flat, args, unf>>

iter_vars == <<stack, spath, out, outpath, visited>>

Init ==
    /\ tree \in Trees
    /\ pred \in Predicates
    /\ pc = "idle"
    /\ stack = <<>>
    /\ spath = <<>>
    /\ out = <<>>
    /\ outpath = <<>>
    /\ visited = <<>>
    /\ flat = <<>>
    /\ args = <<>>
    /\ unf = <<>>

\* tree_iter's first test without the predicate
iter_none_only(p, curr) == curr.type = "NoneType"

\* tree_iter: curr is None or (is_leaf is not None and is_leaf(curr))
iter_none_or_flagged(p, curr) ==
    curr.type = "NoneType" \/ (HasPredicate(p) /\ CallPredicate(p, curr))

\* tree_iter: optree.register_pytree_node.get(type(curr), ...) is None
iter_unregistered(curr) == RegistryGet(curr.type) = <<>>

\* stack.extend(children), without reversed
iter_pushed_unreversed(children) == children

\* tree_iter: what stack.extend(reversed(children)) appends
iter_pushed(children) == Reversed(children)

\* stack after curr = stack.pop()
Popped(s) == SubSeq(s, 1, Len(s) - 1)

\* The record of one pop: the node's path, and whether the predicate was
\* called on it, its type looked up in the registry, and it was decomposed.
Visit(path, curr, looked, decomposed) ==
    [path |-> path,
     tested |-> curr.type # "NoneType" /\ HasPredicate(pred),
     looked |-> looked,
     decomposed |-> decomposed]

\* tree_iter(tree, is_leaf) is called and its generator started.
TreeIterCall ==
    /\ pc = "idle"
    /\ pc' = "running"
    /\ stack' = <<tree>>
    /\ spath' = <<<<>>>>
    /\ UNCHANGED <<tree, pred, out, outpath, visited, flat, args, unf>>

\* One iteration of `while stack`, ending at the first yield.
IterYieldFlagged ==
    /\ pc \in {"running", "yielded"}
    /\ stack # <<>>
    /\ LET curr == stack[Len(stack)]
           path == spath[Len(spath)]
       IN  /\ iter_none_or_flagged(pred, curr)
           /\ stack' = Popped(stack)
           /\ spath' = Popped(spath)
           /\ out' = Append(out, curr)
           /\ outpath' = Append(outpath, path)
           /\ visited' = Append(visited, Visit(path, curr, FALSE, FALSE))
    /\ pc' = "yielded"
    /\ UNCHANGED <<tree, pred, flat, args, unf>>

\* One iteration of `while stack`, ending at the second yield.
IterYieldUnregistered ==
    /\ pc \in {"running", "yielded"}
    /\ stack # <<>>
    /\ LET curr == stack[Len(stack)]
           path == spath[Len(spath)]
       IN  /\ ~iter_none_or_flagged(pred, curr)
           /\ iter_unregistered(curr)
           /\ stack' = Popped(stack)
           /\ spath' = Popped(spath)
           /\ out' = Append(out, curr)
           /\ outpath' = Append(outpath, path)
           /\ visited' = Append(visited, Visit(path, curr, TRUE, FALSE))
    /\ pc' = "yielded"
    /\ UNCHANGED <<tree, pred, flat, args, unf>>

\* IterExpand with stack = list(reversed(children)) in place of extend
IterExpand_assign ==
    /\ pc \in {"running", "yielded"}
    /\ stack # <<>>
    /\ LET curr == stack[Len(stack)]
           path == spath[Len(spath)]
           children == tree_flatten_one_level(curr).children
           paths == [i \in 1..Len(children) |-> Append(path, i)]
       IN  /\ ~iter_none_or_flagged(pred, curr)
           /\ ~iter_unregistered(curr)
           /\ stack' = iter_pushed(children)
           /\ spath' = iter_pushed(paths)
           /\ visited' = Append(visited, Visit(path, curr, TRUE, TRUE))
    /\ pc' = "running"
    /\ UNCHANGED <<tree, pred, out, outpath, flat, args, unf>>

\* One iteration of `while stack` that decomposes curr and pushes its
\* children.
IterExpand ==
    /\ pc \in {"running", "yielded"}
    /\ stack # <<>>
    /\ LET curr == stack[Len(stack)]
           path == spath[Len(spath)]
           children == tree_flatten_one_level(curr).children
           paths == [i \in 1..Len(children) |-> Append(path, i)]
       IN  /\ ~iter_none_or_flagged(pred, curr)
           /\ ~iter_unregistered(curr)
           /\ stack' = Popped(stack) \o iter_pushed(children)
           /\ spath' = Popped(spath) \o iter_pushed(paths)
           /\ visited' = Append(visited, Visit(path, curr, TRUE, TRUE))
    /\ pc' = "running"
    /\ UNCHANGED <<tree, pred, out, outpath, flat, args, unf>>

\* `while stack` finds the stack empty: the generator returns.
IterReturn ==
    /\ pc \in {"running", "yielded"}
    /\ stack = <<>>
    /\ pc' = "exhausted"
    /\ UNCHANGED <<tree, pred, iter_vars, flat, args, unf>>

\* The consumer stops after the leaves it has got; the suspended generator
\* is never resumed.
IterClose ==
    /\ pc = "yielded"
    /\ pc' = "closed"
    /\ UNCHANGED <<tree, pred, iter_vars, flat, args, unf>>

\* tree_flatten(tree, is_leaf) is called.
TreeFlattenCall ==
    /\ pc = "idle"
    /\ flat' = <<tree_flatten(tree, pred)>>
    /\ pc' = "flattened"
    /\ UNCHANGED <<tree, pred, iter_vars, args, unf>>

\* A leaf that is in no input tree.
FreshLeaf == StrValue("z")

\* The leaf sequences tree_unflatten is called with, given the leaves of
\* the flattened tree: right, too short, too long and permuted ones.
LeafSequences(leaves) ==
    {leaves,
     <<>>,
     Popped(leaves),
     Append(leaves, FreshLeaf),
     Reversed(leaves),
     [i \in 1..Len(leaves) |-> FreshLeaf]}

\* The values that are no PyTreeSpec.
NotSpecs == {NoneValue, ListValue(<<>>)}

\* tree_unflatten(leaves, treespec) is called.
TreeUnflattenCall ==
    /\ pc = "flattened"
    /\ \E items \in LeafSequences(flat[1].leaves),
          treespec \in {flat[1].spec, leafspec} \cup NotSpecs :
          \E leaves \in {ListArg(items), IterArg(items)} :
             /\ args' = <<[leaves |-> leaves, treespec |-> treespec]>>
             /\ unf' = <<tree_unflatten(leaves, treespec)>>
    /\ pc' = "unflattened"
    /\ UNCHANGED <<tree, pred, iter_vars, flat>>

Next ==
    \/ TreeIterCall
    \/ IterYieldFlagged
    \/ IterYieldUnregistered
    \/ IterExpand
    \/ IterReturn
    \/ IterClose
    \/ TreeFlattenCall
    \/ TreeUnflattenCall

Spec == Init /\ [][Next]_vars

\* tree_leaves(tree, is_leaf) = list(tree_iter(tree, is_leaf)): the generator
\* is started and resumed until it returns.
TreeLeavesNext ==
    \/ TreeIterCall
    \/ IterYieldFlagged
    \/ IterYieldUnregistered
    \/ IterExpand
    \/ IterReturn

\* list() keeps resuming the generator: every step that can be taken is taken.
LiveSpec == Init /\ [][TreeLeavesNext]_vars /\ WF_vars(TreeLeavesNext)

(* ------------------------- notions of the claims ----------------------- *)

\* A leaf in the sense of the glossary: the none value, a value the
\* predicate flags, or a value without a registered decomposition.
IsLeafNode(p, node) ==
    \/ node.type = "NoneType"
    \/ HasPredicate(p) /\ CallPredicate(p, node)
    \/ node.type \notin RegisteredTypes

\* The children of a container, left to right.
ChildrenOf(node) ==
    IF node.type = "dict"
    THEN [i \in 1..Len(node.items) |-> node.items[i].v]
    ELSE node.items

RECURSIVE NodeAt(_, _)
\* The node of tree t at a path (a sequence of child positions).
NodeAt(t, path) ==
    IF path = <<>> THEN t ELSE NodeAt(ChildrenOf(t)[Head(path)], Tail(path))

RECURSIVE ReachablePaths(_, _, _)
\* The paths of the nodes of t that lie under no leaf: what a traversal that
\* stops at leaves may visit.
ReachablePaths(p, t, path) ==
    IF IsLeafNode(p, t)
    THEN {path}
    ELSE {path} \cup UNION {ReachablePaths(p, ChildrenOf(t)[i], Append(path, i))
                            : i \in 1..Len(ChildrenOf(t))}

\* The paths of the leaves of t.
LeafPaths(p, t) ==
    {path \in ReachablePaths(p, t, <<>>) : IsLeafNode(p, NodeAt(t, path))}

RECURSIVE DepthFirstLeaves(_, _)
\* The leaves of t, depth first, children left to right.
DepthFirstLeaves(p, t) ==
    IF IsLeafNode(p, t)
    THEN <<t>>
    ELSE LET cs == ChildrenOf(t)
             F[i \in 0..Len(cs)] ==
                 IF i = 0 THEN <<>> ELSE F[i - 1] \o DepthFirstLeaves(p, cs[i])
         IN  F[Len(cs)]

\* path a is path b or comes before it in depth-first, left-to-right order.
PreorderLE(a, b) ==
    \/ /\ Len(a) <= Len(b)
       /\ \A i \in 1..Len(a) : a[i] = b[i]
    \/ \E i \in 1..Len(a) :
          /\ i <= Len(b)
          /\ a[i] < b[i]
          /\ \A j \in 1..(i - 1) : a[j] = b[j]

\* s has no element twice.
NoDuplicates(s) == \A i, j \in 1..Len(s) : s[i] = s[j] => i = j

\* The set of the elements of s.
Range(s) == {s[i] : i \in 1..Len(s)}

\* tree_unflatten was called with a spec / with the spec and the leaves of
\* the flattened tree.
UnflattenedSpec == pc = "unflattened" /\ IsPyTreeSpec(args[1].treespec)

UnflattenedOwn ==
    /\ UnflattenedSpec
    /\ args[1].treespec = flat[1].spec

(* ------------------------------- claims -------------------------------- *)

\* C1 Round-trip: unflattening the leaves tree_flatten returned, against the
\* spec it returned, succeeds and gives back the tree that was flattened
\* (types, child order, keys and leaf values), whatever the predicate.
C1_RoundTrip ==
    (UnflattenedOwn /\ args[1].leaves.items = flat[1].leaves)
        => /\ unf[1].status = "ok"
           /\ unf[1].value = tree

C1_Witness ==
    /\ UnflattenedOwn
    /\ args[1].leaves.items = flat[1].leaves
    /\ tree.type = "dict"
    /\ Len(tree.items) = 2
    /\ tree.items[1].k = "q"
    /\ tree.items[1].v.type = "list"
    /\ Len(flat[1].leaves) = 2
    /\ flat[1].leaves[1] # flat[1].leaves[2]
    /\ unf[1].status = "ok"

\* C2 Leaf-order equivalence: the list the stack walker produces when run to
\* exhaustion equals the leaf list of tree_flatten, and both are the
\* depth-first, left-to-right sequence of the leaves.
C2_LeafOrderEquivalence ==
    pc = "exhausted"
        => /\ out = tree_flatten(tree, pred).leaves
           /\ out = DepthFirstLeaves(pred, tree)

C2_Witness ==
    /\ pc = "exhausted"
    /\ Len(out) = 2
    /\ out[1] # out[2]
    /\ \E i \in 1..Len(visited) : visited[i].decomposed /\ visited[i].path # <<>>

\* C3 Length-mismatch failure: unflatten of a leaf sequence whose length is
\* not the spec's num_leaves fails with the length-mismatch error (too few
\* and too many alike), and calls no reconstruct function.
C3_LengthMismatch ==
    (UnflattenedSpec
        /\ Len(args[1].leaves.items) # args[1].treespec.num_leaves)
        => /\ unf[1].status = "ValueError"
           /\ unf[1].reconstructed = <<>>
           /\ Len(unf[1].calls) = 1
           /\ unf[1].calls[1].raised

C3_Witness ==
    /\ UnflattenedSpec
    /\ Len(args[1].leaves.items) > args[1].treespec.num_leaves
    /\ args[1].treespec.num_children = 2
    /\ args[1].treespec.num_leaves = 2
    /\ unf[1].status = "ValueError"

\* C4 Type-mismatch failure: tree_unflatten with a second argument that is
\* no PyTreeSpec fails with the type error whatever the leaves are, before
\* the leaves are materialized or their length examined.
C4_TypeMismatch ==
    (pc = "unflattened" /\ ~IsPyTreeSpec(args[1].treespec))
        => /\ unf[1].status = "TypeError"
           /\ ~unf[1].materialized
           /\ unf[1].calls = <<>>
           /\ unf[1].reconstructed = <<>>

C4_Witness ==
    /\ pc = "unflattened"
    /\ ~IsPyTreeSpec(args[1].treespec)
    /\ args[1].leaves.kind = "iterator"
    /\ Len(args[1].leaves.items) = 3
    /\ unf[1].status = "TypeError"

\* The specs tree_flatten constructed (one per helper call) and the
\* canonical leaf spec.
ConstructedSpecs == {leafspec} \cup {flat[1].calls[i].spec : i \in 1..Len(flat[1].calls)}

\* C5 Leaf classification: for every spec that is constructed, is_leaf() is
\* true exactly when num_nodes = 1 and num_leaves = 1, and that is exactly
\* when node_type is absent; it is false for every spec of a container, one
\* with a single leaf child or with no child included.
C5_LeafClassification ==
    pc = "flattened"
        => \A s \in ConstructedSpecs :
              /\ post_init_asserts(s._children, s._type, s._metadata,
                                   s._entries, s._unflatten_func)
              /\ is_leaf(s) <=> (s.num_nodes = 1 /\ s.num_leaves = 1)
              /\ (s.num_nodes = 1 /\ s.num_leaves = 1) <=> s._type = <<>>
              /\ s._type # <<>> => ~is_leaf(s)

C5_Witness ==
    /\ pc = "flattened"
    /\ \E s \in ConstructedSpecs :
          s._type # <<>> /\ s.num_children = 1 /\ s.num_leaves = 1 /\ ~is_leaf(s)
    /\ \E s \in ConstructedSpecs :
          s._type # <<>> /\ s.num_children = 0 /\ ~is_leaf(s)

\* C6 Leaf-count invariant: the spec tree_flatten returns has num_leaves
\* equal to the length of the leaf list, and so has every descendant spec:
\* its num_leaves is the number of leaves its subtree appended to the list.
C6_LeafCount ==
    pc = "flattened"
        => /\ flat[1].spec.num_leaves = Len(flat[1].leaves)
           /\ \A i \in 1..Len(flat[1].calls) :
                 LET c == flat[1].calls[i]
                 IN  c.spec.num_leaves = c.after - c.before

C6_Witness ==
    /\ pc = "flattened"
    /\ Len(flat[1].leaves) = 2
    /\ \E i \in 1..Len(flat[1].calls) :
          LET c == flat[1].calls[i]
          IN  c.before = 1 /\ c.after = 2 /\ c.spec.num_children = 1

\* C7 Lazy early termination: when tree_iter has yielded a leaf (and when
\* the consumer has stopped there), every node popped so far - and so every
\* node tested, looked up or decomposed - is that leaf or comes before it in
\* depth-first, left-to-right order.
C7_LazyTraversal ==
    pc \in {"yielded", "closed"}
        => \A i \in 1..Len(visited) :
              PreorderLE(visited[i].path, outpath[Len(outpath)])

C7_Witness ==
    /\ pc = "closed"
    /\ Len(out) = 1
    /\ Len(stack) = 1
    /\ stack[1].type = "list"
    /\ Len(stack[1].items) = 1
    /\ Len(visited) = 2

\* C8 Leaf base case: a node that is none, flagged by the predicate or of
\* an unregistered type is one leaf for tree_flatten and for tree_iter: it
\* is emitted itself, it is not decomposed, nothing under it is visited, and
\* tree_flatten returns the canonical leaf spec for it.
C8_LeafBaseCase ==
    /\ pc = "flattened"
         => /\ \A i \in 1..Len(flat[1].calls) :
                  LET c == flat[1].calls[i]
                  IN  IsLeafNode(pred, c.node)
                         => /\ c.spec = leafspec
                            /\ c.after = c.before + 1
                            /\ flat[1].leaves[c.after] = c.node
            /\ Len(flat[1].calls) = Cardinality(ReachablePaths(pred, tree, <<>>))
            /\ IsLeafNode(pred, tree)
                  => /\ flat[1].leaves = <<tree>>
                     /\ flat[1].spec = leafspec
                     /\ flat[1].spec.num_leaves = 1
    /\ \A i \in 1..Len(visited) :
          LET v == visited[i]
          IN  IsLeafNode(pred, NodeAt(tree, v.path))
                 => /\ ~v.decomposed
                    /\ \E k \in 1..Len(outpath) :
                          outpath[k] = v.path /\ out[k] = NodeAt(tree, v.path)
                    /\ \A j \in 1..Len(visited) :
                          PreorderLE(v.path, visited[j].path)
                          /\ Len(visited[j].path) > Len(v.path)
                             => \E n \in 1..Len(v.path) :
                                   visited[j].path[n] # v.path[n]

C8_Witness ==
    /\ pc = "flattened"
    /\ pred = "IsList"
    /\ tree.type = "dict"
    /\ Len(tree.items) = 2
    /\ tree.items[1].v.type = "list"
    /\ Len(tree.items[1].v.items) = 1
    /\ tree.items[2].v.type = "NoneType"
    /\ flat[1].leaves = <<tree.items[1].v, tree.items[2].v>>

\* C9 Exact run partitioning: when the spec of tree_flatten is unflattened
\* with a leaf sequence of the right length, every call of unflatten hands
\* child i the contiguous slice of length children[i].num_leaves, the slices
\* follow one another from 0 to the length of the sequence, and no nested
\* call raises the length-mismatch error.
C9_RunPartition ==
    (UnflattenedOwn
        /\ Len(args[1].leaves.items) = args[1].treespec.num_leaves)
        => /\ unf[1].status = "ok"
           /\ \A i \in 1..Len(unf[1].calls) :
                 LET c == unf[1].calls[i]
                     n == Len(c.spec._children)
                 IN  /\ ~c.raised
                     /\ Len(c.runs) = n
                     /\ \A k \in 1..n :
                           /\ c.runs[k].end - c.runs[k].start
                                 = c.spec._children[k].num_leaves
                           /\ c.runs[k].start = (IF k = 1 THEN 0 ELSE c.runs[k - 1].end)
                           /\ c.runs[k].slice
                                 = SubSeq(c.items, c.runs[k].start + 1, c.runs[k].end)
                     /\ c.spec._type # <<>>
                           => (IF n = 0 THEN 0 ELSE c.runs[n].end) = Len(c.items)

C9_Witness ==
    /\ UnflattenedOwn
    /\ args[1].leaves.items # flat[1].leaves
    /\ Len(args[1].leaves.items) = 2
    /\ args[1].treespec.num_leaves = 2
    /\ args[1].treespec.num_children = 2
    /\ Len(unf[1].calls) = 4
    /\ unf[1].calls[1].runs[2].start = 1
    /\ unf[1].status = "ok"

\* C10 Termination of the walker: tree_iter run to exhaustion eventually
\* finds its stack empty and stops, and has then popped every node that lies
\* under no leaf exactly once and yielded every leaf exactly once.
C10_Termination ==
    /\ <>(pc = "exhausted")
    /\ [](pc = "exhausted"
            => /\ stack = <<>>
               /\ NoDuplicates([i \in 1..Len(visited) |-> visited[i].path])
               /\ {visited[i].path : i \in 1..Len(visited)}
                     = ReachablePaths(pred, tree, <<>>)
               /\ NoDuplicates(outpath)
               /\ Range(outpath) = LeafPaths(pred, tree)
               /\ \A k \in 1..Len(out) : out[k] = NodeAt(tree, outpath[k]))

C10_Witness ==
    /\ pc = "exhausted"
    /\ Len(visited) = 4
    /\ Len(out) = 2
    /\ tree.type = "list"
    /\ Len(tree.items) = 2
    /\ tree.items[1].type = "dict"

====
